---- MODULE Spec2Model ----
(***************************************************************************)
(* Eco Weather + AQI Dashboard: the script of app.py (one run per button   *)
(* click), the Open-Meteo client of services.py and the helpers of         *)
(* helpers.py (AQI classification, eco tips, the Excel log).               *)
(*                                                                         *)
(* Python floats are modelled as fixed-point integers in tenths            *)
(* (Fixed(18) is 18.0, Fixed(18) + 1 is 18.1); every float the model feeds *)
(* through the Celsius->Fahrenheit formula is a multiple of 0.5, for which *)
(* c * 9/5 + 32 is exact in tenths.  A Python value is a record            *)
(* [k, n, s]: None, NaN, a number n or a string s.                         *)
(***************************************************************************)
EXTENDS Integers, Sequences, FiniteSets, TLC

VARIABLES
    file,         \* weather_records.xlsx: [exists, corrupt, rows]
    file_before,  \* the file as it was before the last operation
    nq,           \* number of button clicks / append calls so far
    confirmed,    \* the queries whose run showed "Weather record saved"
    run,          \* everything the last run of the script computed and showed
    passed,       \* the records passed to save_record_to_excel, in call order
    io_clean,     \* TRUE while no append has met an I/O failure
    fn_pc,        \* position of a pure-function check: "ready" or "done"
    fn_in,        \* arguments of the pure function under check
    fn_out        \* its result

vars == <<file, file_before, nq, confirmed, run, passed, io_clean, fn_pc, fn_in, fn_out>>

---------------------------------------------------------------------------
(* Values *)

Fixed(n) == n * 10

None == [k |-> "none", n |-> 0, s |-> ""]
NaN == [k |-> "nan", n |-> 0, s |-> ""]
Num(v) == [k |-> "num", n |-> v, s |-> ""]
Str(t) == [k |-> "str", n |-> 0, s |-> t]

\* `x is None or (isinstance(x, float) and math.isnan(x))`
IsMissing(x) == x.k = "none" \/ x.k = "nan"

---------------------------------------------------------------------------
(* helpers.py: explain_us_aqi, aqi_emoji *)

explain_us_aqi_lt(aqi) ==
    IF IsMissing(aqi) THEN "AQI data not available."
    ELSE IF aqi.n < Fixed(50) THEN "Good - Air quality is considered satisfactory."
    ELSE IF aqi.n <= Fixed(100) THEN "Moderate - Acceptable; some pollutants may affect very sensitive people."
    ELSE IF aqi.n <= Fixed(150) THEN "Unhealthy for Sensitive Groups - Sensitive people should reduce outdoor exertion."
    ELSE IF aqi.n <= Fixed(200) THEN "Unhealthy - Everyone may begin to feel adverse health effects."
    ELSE IF aqi.n <= Fixed(300) THEN "Very Unhealthy - Health alert; serious effects for everyone."
    ELSE "Hazardous - Emergency conditions; avoid going outside."

explain_us_aqi(aqi) ==
    IF IsMissing(aqi) THEN "AQI data not available."
    ELSE IF aqi.n <= Fixed(50) THEN "Good - Air quality is considered satisfactory."
    ELSE IF aqi.n <= Fixed(100) THEN "Moderate - Acceptable; some pollutants may affect very sensitive people."
    ELSE IF aqi.n <= Fixed(150) THEN "Unhealthy for Sensitive Groups - Sensitive people should reduce outdoor exertion."
    ELSE IF aqi.n <= Fixed(200) THEN "Unhealthy - Everyone may begin to feel adverse health effects."
    ELSE IF aqi.n <= Fixed(300) THEN "Very Unhealthy - Health alert; serious effects for everyone."
    ELSE "Hazardous - Emergency conditions; avoid going outside."

\* The badges are named after the emoji the code returns.
aqi_emoji(aqi) ==
    IF IsMissing(aqi) THEN "white circle"
    ELSE IF aqi.n <= Fixed(50) THEN "green circle"
    ELSE IF aqi.n <= Fixed(100) THEN "yellow circle"
    ELSE IF aqi.n <= Fixed(150) THEN "orange circle"
    ELSE IF aqi.n <= Fixed(200) THEN "red circle"
    ELSE IF aqi.n <= Fixed(300) THEN "purple circle"
    ELSE "black circle"

---------------------------------------------------------------------------
(* helpers.py: eco_tips *)

TipComfortable == "Comfortable temperature - use fans/natural airflow instead of AC to save energy."
TipHot == "It's hot - close curtains during the day & use light cotton clothes before lowering AC too much."
TipCool == "It's cool - wear extra layers instead of relying only on room heaters."
TipClearSky == "Clear sky - perfect to dry clothes outside instead of using a dryer."
TipDaylight == "Use natural daylight instead of switching on lights."
TipCloudy == "Cloudy - still enough daylight; keep unnecessary lights switched off."
TipRain == "Rainy - collect some rainwater (where safe) for plants or cleaning."
TipWintry == "Cold/wintry - ensure windows/doors are sealed to avoid heat loss."
TipAvoidVehicles == "AQI is high - avoid using private vehicles; prefer public transport or carpooling."
TipWearMask == "Consider wearing a mask and avoid heavy outdoor exercise."
TipWalkCycle == "AQI is good - great time to walk or cycle instead of using a vehicle."
TipVentilation == "Windy outside - open windows for natural ventilation instead of running a fan all day."
TipFallback == "No special alerts - follow 3Rs: Reduce, Reuse, Recycle."

TemperatureTips_hot_from_30(temp_c) ==
    IF Fixed(18) <= temp_c.n /\ temp_c.n <= Fixed(28) THEN <<TipComfortable>>
    ELSE IF temp_c.n >= Fixed(30) THEN <<TipHot>>
    ELSE IF temp_c.n < Fixed(15) THEN <<TipCool>>
    ELSE <<>>

\* temp_c and weather_code are numbers (the caller substitutes defaults for
\* None); aqi and wind_speed may be None, aqi may be NaN.
TemperatureTips(temp_c) ==
    IF Fixed(18) <= temp_c.n /\ temp_c.n <= Fixed(28) THEN <<TipComfortable>>
    ELSE IF temp_c.n > Fixed(30) THEN <<TipHot>>
    ELSE IF temp_c.n < Fixed(15) THEN <<TipCool>>
    ELSE <<>>

WeatherCodeTips(weather_code) ==
    IF weather_code.n \in {0, 1} THEN <<TipClearSky, TipDaylight>>
    ELSE IF weather_code.n \in {2, 3} THEN <<TipCloudy>>
    ELSE IF (51 <= weather_code.n /\ weather_code.n <= 67)
            \/ (80 <= weather_code.n /\ weather_code.n <= 82) THEN <<TipRain>>
    ELSE IF (71 <= weather_code.n /\ weather_code.n <= 77)
            \/ (85 <= weather_code.n /\ weather_code.n <= 86) THEN <<TipWintry>>
    ELSE <<>>

AqiTips(aqi) ==
    IF ~IsMissing(aqi)
    THEN IF aqi.n > Fixed(150) THEN <<TipAvoidVehicles, TipWearMask>>
         ELSE IF aqi.n <= Fixed(50) THEN <<TipWalkCycle>>
         ELSE <<>>
    ELSE <<>>

WindTips(wind_speed) ==
    IF wind_speed.k # "none" /\ wind_speed.n > Fixed(6) THEN <<TipVentilation>> ELSE <<>>

WithFallback_always(tips) == tips \o <<TipFallback>>

WithFallback(tips) == IF tips = <<>> THEN <<TipFallback>> ELSE tips

eco_tips(temp_c, weather_code, aqi, wind_speed) ==
    WithFallback(TemperatureTips(temp_c) \o WeatherCodeTips(weather_code)
                 \o AqiTips(aqi) \o WindTips(wind_speed))

---------------------------------------------------------------------------
(* services.py: latest_aqi, _safe_get; helpers.py: aqi_timeseries,         *)
(* pollutant_summary.  "hourly" maps each key of the provider's hourly     *)
(* block to its array; a key the response lacks is the empty array (the    *)
(* code reads both the same way: .get(key, []) and `not arr`).             *)

Pollutants == {"pm2_5", "pm10", "ozone", "nitrogen_dioxide", "carbon_monoxide"}
PollutantOrder == <<"pm2_5", "pm10", "ozone", "nitrogen_dioxide", "carbon_monoxide">>
HourlyKeys == {"time", "us_aqi"} \cup Pollutants

EmptyDict == [p \in {} |-> None]

\* dict.get(key)
DictGet(d, key) == IF key \in DOMAIN d THEN d[key] ELSE None

\* Python indexes from 0, sequences from 1: arr[idx] is arr[idx + 1] here.
_safe_get(hourly, key, idx) ==
    LET arr == hourly[key]
    IN  IF arr = <<>> \/ idx >= Len(arr) THEN None ELSE arr[idx + 1]

latest_aqi(hourly) ==
    LET times == hourly["time"]
        idx == Len(times) - 1
        aqi_values == hourly["us_aqi"]
    IN  IF times = <<>>
        THEN [aqi_val |-> None, pollutants |-> EmptyDict]
        ELSE [aqi_val |-> IF idx < Len(aqi_values) THEN aqi_values[idx + 1] ELSE None,
              pollutants |-> [p \in Pollutants |-> _safe_get(hourly, p, idx)]]

NoFrame == [present |-> FALSE, time |-> <<>>, us_aqi |-> <<>>]

\* pd.DataFrame({...}) raises ValueError when the two arrays differ in length.
aqi_timeseries(hourly) ==
    LET times == hourly["time"]
        aqi_values == hourly["us_aqi"]
    IN  IF times = <<>> \/ aqi_values = <<>>
        THEN [raised |-> FALSE, df |-> NoFrame]
        ELSE IF Len(times) # Len(aqi_values)
        THEN [raised |-> TRUE, df |-> NoFrame]
        ELSE [raised |-> FALSE,
              df |-> [present |-> TRUE, time |-> times, us_aqi |-> aqi_values]]

\* The lines of the summary, as <<pollutant, value>> pairs in the fixed order;
\* <<>> stands for "Pollutant data not available."
pollutant_summary(pollutants) ==
    LET Present(i) == DictGet(pollutants, PollutantOrder[i]).k # "none"
        Lines[i \in 0..Len(PollutantOrder)] ==
            IF i = 0 THEN <<>>
            ELSE IF Present(i)
                 THEN Append(Lines[i - 1], <<PollutantOrder[i], DictGet(pollutants, PollutantOrder[i])>>)
                 ELSE Lines[i - 1]
    IN  Lines[Len(PollutantOrder)]

---------------------------------------------------------------------------
(* helpers.py: save_record_to_excel.  The file holds the cells to_excel    *)
(* wrote: a missing value (None, NaN) is an empty cell.  read_excel, called*)
(* with its defaults, reads an empty cell and every string of its default  *)
(* NA list as NaN.                                                         *)

Columns == {"Date & Time", "City", "Country", "Temperature (C)",
            "Wind Speed (km/h)", "Weather Code", "US AQI"}

EmptyCell == [k |-> "empty", n |-> 0, s |-> ""]

STR_NA_VALUES == {"", "#N/A", "#N/A N/A", "#NA", "-1.#IND", "-1.#QNAN", "-NaN", "-nan",
                  "1.#IND", "1.#QNAN", "<NA>", "N/A", "NA", "NULL", "NaN", "None",
                  "n/a", "nan", "null"}

NoFile == [exists |-> FALSE, corrupt |-> FALSE, rows |-> <<>>]
CorruptFile == [exists |-> TRUE, corrupt |-> TRUE, rows |-> <<>>]

\* What can happen to the file system during one call: nothing, the read of
\* the existing file fails, the write is refused before the file is touched,
\* or the write fails after the file was opened for writing (and truncated).
IOOutcomes == {"ok", "read_error", "write_refused", "write_partial"}

ExcelCell(v) == IF IsMissing(v) THEN EmptyCell ELSE v
ExcelRow(rec) == [c \in Columns |-> ExcelCell(rec[c])]

ReadCell(c) ==
    IF c.k = "empty" THEN NaN
    ELSE IF c.k = "str" /\ c.s \in STR_NA_VALUES THEN NaN
    ELSE c

read_excel(f, io) ==
    IF f.corrupt \/ io = "read_error"
    THEN [raised |-> TRUE, df |-> <<>>]
    ELSE [raised |-> FALSE,
          df |-> [i \in 1..Len(f.rows) |-> [c \in Columns |-> ReadCell(f.rows[i][c])]]]

to_excel(df, f, io) ==
    IF io = "write_refused" THEN [raised |-> TRUE, file |-> f]
    ELSE IF io = "write_partial" THEN [raised |-> TRUE, file |-> CorruptFile]
    ELSE [raised |-> FALSE,
          file |-> [exists |-> TRUE, corrupt |-> FALSE,
                    rows |-> [i \in 1..Len(df) |-> ExcelRow(df[i])]]]

\* Returns the file after the call and whether st.warning was shown.
save_record_to_excel(record, f, io) ==
    IF f.exists
    THEN LET df_existing == read_excel(f, io)
             df_new == df_existing.df \o <<record>>
             written == to_excel(df_new, f, io)
         IN  IF df_existing.raised
             THEN [file |-> f, warned |-> TRUE]
             ELSE [file |-> written.file, warned |-> written.raised]
    ELSE LET written == to_excel(<<record>>, f, io)
         IN  [file |-> written.file, warned |-> written.raised]

---------------------------------------------------------------------------
(* What the outside world can answer *)

MaxQueries == 2
MaxHours == 2
MaxAppends == 3
MaxForecastDays == 5

UnitChoices == {"Celsius", "Fahrenheit"}

\* The text box: blank (only spaces) or a city name.
CityInputs == {[text |-> "  ", stripped |-> ""],
               [text |-> " Delhi ", stripped |-> "Delhi"]}

NoLocation == [name |-> None, country |-> None, latitude |-> None, longitude |-> None]
Delhi == [name |-> Str("Delhi"), country |-> Str("India"),
          latitude |-> Num(287), longitude |-> Num(772)]
\* The town of None in Piedmont.
NoneItaly == [name |-> Str("None"), country |-> Str("Italy"),
              latitude |-> Num(450), longitude |-> Num(76)]

\* geocode_city: the request raises, or the provider answers with its matches.
GeocodeResponses == {[status |-> "error", results |-> <<>>],
                     [status |-> "ok", results |-> <<>>],
                     [status |-> "ok", results |-> <<Delhi>>],
                     [status |-> "ok", results |-> <<NoneItaly>>]}

NoCurrent == [temperature |-> None, windspeed |-> None, weathercode |-> None, time |-> None]
NoDaily == [time |-> <<>>, temperature_2m_max |-> <<>>, temperature_2m_min |-> <<>>,
            weathercode |-> <<>>]
NoWeather == [current_weather |-> NoCurrent, daily |-> NoDaily]

Days(n) == [i \in 1..n |-> Str("2026-11-01")]

\* get_weather_forecast: the request raises, or the provider answers.  A
\* current_weather block without fields and daily arrays shorter than the
\* dates are answers the code is written for (.get, `i < len(tmax)`).
ForecastResponses ==
    {[status |-> "error", data |-> NoWeather],
     [status |-> "ok",
      data |-> [current_weather |-> [temperature |-> Num(325), windspeed |-> Num(30),
                                     weathercode |-> Num(61), time |-> Str("2026-11-01T12:00")],
                daily |-> [time |-> Days(1), temperature_2m_max |-> <<Num(350)>>,
                           temperature_2m_min |-> <<Num(250)>>, weathercode |-> <<Num(61)>>]]],
     [status |-> "ok",
      data |-> [current_weather |-> NoCurrent,
                daily |-> [time |-> Days(1), temperature_2m_max |-> <<Num(300)>>,
                           temperature_2m_min |-> <<Num(200)>>, weathercode |-> <<Num(0)>>]]],
     [status |-> "ok",
      data |-> [current_weather |-> [temperature |-> Num(290), windspeed |-> Num(70),
                                     weathercode |-> Num(45), time |-> Str("2026-11-01T12:00")],
                daily |-> NoDaily]],
     [status |-> "ok",
      data |-> [current_weather |-> [temperature |-> Num(200), windspeed |-> Num(20),
                                     weathercode |-> Num(45), time |-> None],
                daily |-> [time |-> Days(MaxForecastDays + 1),
                           temperature_2m_max |-> [i \in 1..MaxForecastDays + 1 |-> Num(100 + 5 * i)],
                           temperature_2m_min |-> [i \in 1..MaxForecastDays |-> Num(5 * i)],
                           weathercode |-> <<>>]]]}

\* The i-th sample of an hourly array: the AQI climbs through the tiers.
HourlySample(key, i) ==
    IF key = "time" THEN Num(i)
    ELSE IF key = "us_aqi" THEN Num(Fixed(40 + 135 * (i - 1)))
    ELSE Num(100 * i + Len(key))

NoHourly == [key \in HourlyKeys |-> <<>>]

\* The hourly block with the given number of samples under each key.
Hourly(len) == [key \in HourlyKeys |-> [i \in 1..len[key] |-> HourlySample(key, i)]]

\* get_air_quality: the request raises, or the provider answers with arrays of
\* any lengths up to MaxHours + 1, not necessarily equal.
AllAirQuality ==
    {[status |-> "error", hourly |-> NoHourly]} \cup
    {[status |-> "ok",
      hourly |-> Hourly([key \in HourlyKeys |->
                            IF key = "time" THEN n
                            ELSE IF key = "us_aqi" THEN a
                            ELSE IF key \in {"pm2_5", "pm10"} THEN p
                            ELSE IF key = "ozone" THEN (IF o THEN n ELSE 0)
                            ELSE n])] :
        n \in 0..MaxHours, a \in 0..MaxHours + 1, p \in 0..MaxHours + 1, o \in BOOLEAN}

\* The answers the whole-pipeline specification draws from: an error, no
\* samples, equal lengths, us_aqi longer and us_aqi shorter than time.
UniformHourly(n, a) == Hourly([key \in HourlyKeys |-> IF key = "us_aqi" THEN a ELSE n])
CommonAirQuality ==
    {[status |-> "error", hourly |-> NoHourly],
     [status |-> "ok", hourly |-> UniformHourly(0, 0)],
     [status |-> "ok", hourly |-> UniformHourly(1, 1)],
     [status |-> "ok", hourly |-> UniformHourly(2, 2)],
     [status |-> "ok", hourly |-> UniformHourly(1, 2)],
     [status |-> "ok", hourly |-> UniformHourly(2, 1)]}

---------------------------------------------------------------------------
(* app.py: the script, run top to bottom on every click of the button.     *)
(* run.pc is the next block of the script; "idle" is the script ended      *)
(* (normally or by st.stop()) and the page waiting for the next click.     *)

MsgBlankCity == "error: Please enter a city name."
MsgGeocodeError == "error: Error geocoding city"
MsgNotFound == "error: Could not find this city."
MsgForecastError == "error: Error fetching weather data"
MsgSaveWarning == "warning: Could not save record to Excel"
MsgSaved == "success: Weather record saved in 'weather_records.xlsx'"
MsgNoAirQuality == "warning: Air quality data not available for this location."
MsgNoForecast == "warning: Forecast data not available."
ErrorMessages == {MsgBlankCity, MsgGeocodeError, MsgNotFound, MsgForecastError}

NoRecord == [c \in Columns |-> None]
NoAqiSection == [badge |-> "", text |-> "", summary |-> <<>>, trend |-> FALSE]

NoRun ==
    [pc |-> "idle", outcome |-> "none", qid |-> 0, calls |-> <<>>, units |-> "Celsius",
     geo_status |-> "none", fc_status |-> "none", aq_status |-> "none",
     location |-> NoLocation, weather_data |-> NoWeather,
     temp_c |-> None, wind_speed |-> None, weather_code |-> None, time_str |-> None,
     temp |-> None, temp_unit |-> "",
     hourly |-> NoHourly, aq_failed |-> FALSE,
     aqi_val |-> None, pollutants |-> EmptyDict, aqi_df |-> NoFrame,
     record |-> NoRecord, save_warned |-> FALSE, messages |-> {},
     shown_current |-> [value |-> None, unit |-> ""], shown_aqi |-> NoAqiSection, shown_daily |-> <<>>,
     tips |-> <<>>]

\* services.py geocode_city: raise_for_status raises, `not results` gives None.
geocode_city(resp) ==
    IF resp.status = "error" THEN [raised |-> TRUE, found |-> FALSE, location |-> NoLocation]
    ELSE IF resp.results = <<>> THEN [raised |-> FALSE, found |-> FALSE, location |-> NoLocation]
    ELSE [raised |-> FALSE, found |-> TRUE, location |-> resp.results[1]]

\* services.py get_weather_forecast / get_air_quality: raise or return r.json().
get_weather_forecast(resp) == [raised |-> resp.status = "error", data |-> resp.data]
get_air_quality(resp) == [raised |-> resp.status = "error", hourly |-> resp.hourly]

GeocodingStops_on_error_only(g) == g.raised

\* The two st.stop() of the geocoding block: on an exception and on no match.
GeocodingStops(g) == g.raised \/ ~g.found

\* The st.stop() of the forecast block.
ForecastStops(w) == w.raised

\* f = c * 9/5 + 32, in tenths.
ToFahrenheit(c) == Num((c.n * 9) \div 5 + Fixed(32))

UnitConversion(units, temp_c) ==
    IF units = "Fahrenheit" /\ temp_c.k # "none"
    THEN [temp |-> ToFahrenheit(temp_c), temp_unit |-> "F"]
    ELSE [temp |-> temp_c, temp_unit |-> "C"]

AirQualityBlock_except_pass(resp) ==
    LET aq_data == get_air_quality(resp)
        latest == latest_aqi(aq_data.hourly)
        series == aqi_timeseries(aq_data.hourly)
    IN  IF aq_data.raised
        THEN [failed |-> TRUE, aqi_val |-> None, pollutants |-> EmptyDict, aqi_df |-> NoFrame]
        ELSE [failed |-> series.raised, aqi_val |-> latest.aqi_val,
              pollutants |-> latest.pollutants, aqi_df |-> series.df]

\* The try/except around get_air_quality, latest_aqi and aqi_timeseries:
\* failed is TRUE when the except branch ran.
AirQualityBlock(resp) ==
    LET aq_data == get_air_quality(resp)
        latest == latest_aqi(aq_data.hourly)
        series == aqi_timeseries(aq_data.hourly)
    IN  IF aq_data.raised \/ series.raised
        THEN [failed |-> TRUE, aqi_val |-> None, pollutants |-> EmptyDict, aqi_df |-> NoFrame]
        ELSE [failed |-> FALSE, aqi_val |-> latest.aqi_val, pollutants |-> latest.pollutants,
              aqi_df |-> series.df]

CurrentRecord(r) ==
    [c \in Columns |->
        IF c = "Date & Time" THEN Num(r.qid)   \* datetime.now(): later for a later run
        ELSE IF c = "City" THEN r.location.name
        ELSE IF c = "Country" THEN r.location.country
        ELSE IF c = "Temperature (C)" THEN r.temp_c
        ELSE IF c = "Wind Speed (km/h)" THEN r.wind_speed
        ELSE IF c = "Weather Code" THEN r.weather_code
        ELSE r.aqi_val]

\* st.metric("Current", ...): the value with its unit label, or "N/A".
ShownCurrent(temp, temp_unit) ==
    IF temp.k # "none" THEN [value |-> temp, unit |-> temp_unit]
    ELSE [value |-> None, unit |-> "N/A"]

AirQualitySection(aqi_val, pollutants, aqi_df) ==
    IF ~IsMissing(aqi_val)
    THEN [badge |-> aqi_emoji(aqi_val), text |-> explain_us_aqi(aqi_val),
          summary |-> pollutant_summary(pollutants),
          trend |-> aqi_df.present /\ aqi_df.time # <<>>]
    ELSE NoAqiSection

Min(a, b) == IF a <= b THEN a ELSE b
At(arr, i) == IF i <= Len(arr) THEN arr[i] ELSE None

\* One column per day: the lines written for Min and Max (None when the line
\* is not written), each with the unit label printed after it.
ForecastSection(daily, units, temp_unit) ==
    LET num_days == Min(MaxForecastDays, Len(daily.time))
        Convert(v) == IF units = "Fahrenheit" /\ v.k # "none" THEN ToFahrenheit(v) ELSE v
    IN  [i \in 1..num_days |->
            [tmin |-> Convert(At(daily.temperature_2m_min, i)),
             tmax |-> Convert(At(daily.temperature_2m_max, i)),
             unit |-> temp_unit,
             code |-> At(daily.weathercode, i)]]

OrElse(v, default) == IF v.k # "none" THEN v ELSE default

ScriptTips(r) ==
    eco_tips(OrElse(r.temp_c, Num(Fixed(25))), OrElse(r.weather_code, Num(1)),
             r.aqi_val, OrElse(r.wind_speed, Num(0)))

---------------------------------------------------------------------------
(* The blocks of the script as steps *)

logvars == <<passed, io_clean>>
fnvars == <<fn_pc, fn_in, fn_out>>

\* The button is clicked: the script starts again from the top with the
\* sidebar's city and unit (app.py 28-45).
Click(limit) ==
    /\ run.pc = "idle"
    /\ nq < limit
    /\ \E city \in CityInputs, units \in UnitChoices :
          run' = IF city.stripped = ""
                 THEN [NoRun EXCEPT !.qid = nq + 1, !.units = units, !.outcome = "blank",
                                    !.messages = {MsgBlankCity}]
                 ELSE [NoRun EXCEPT !.qid = nq + 1, !.units = units, !.pc = "geocoding"]
    /\ nq' = nq + 1
    /\ file_before' = file
    /\ UNCHANGED <<file, confirmed, logvars, fnvars>>

\* app.py 46-60
Geocode ==
    /\ run.pc = "geocoding"
    /\ \E resp \in GeocodeResponses :
          LET g == geocode_city(resp)
              r == [run EXCEPT !.calls = Append(@, "geocode_city"),
                               !.geo_status = IF g.raised THEN "raised"
                                              ELSE IF g.found THEN "found" ELSE "no_match"]
          IN  run' = IF GeocodingStops(g)
                     THEN [r EXCEPT !.pc = "idle",
                                    !.outcome = IF g.raised THEN "geocode_error" ELSE "not_found",
                                    !.messages = @ \cup {IF g.raised THEN MsgGeocodeError
                                                         ELSE MsgNotFound}]
                     ELSE [r EXCEPT !.pc = "forecast", !.location = g.location]
    /\ UNCHANGED <<file, file_before, nq, confirmed, logvars, fnvars>>

\* app.py 62-83
Forecast ==
    /\ run.pc = "forecast"
    /\ \E resp \in ForecastResponses :
          LET w == get_weather_forecast(resp)
              r == [run EXCEPT !.calls = Append(@, "get_weather_forecast"),
                               !.fc_status = IF w.raised THEN "raised" ELSE "ok"]
              current == w.data.current_weather
              conv == UnitConversion(run.units, current.temperature)
          IN  run' = IF ForecastStops(w)
                     THEN [r EXCEPT !.pc = "idle", !.outcome = "forecast_error",
                                    !.messages = @ \cup {MsgForecastError}]
                     ELSE [r EXCEPT !.pc = "air_quality",
                                    !.weather_data = w.data,
                                    !.temp_c = current.temperature,
                                    !.wind_speed = current.windspeed,
                                    !.weather_code = current.weathercode,
                                    !.time_str = current.time,
                                    !.temp = conv.temp,
                                    !.temp_unit = conv.temp_unit]
    /\ UNCHANGED <<file, file_before, nq, confirmed, logvars, fnvars>>

\* app.py 85-92
AirQualityWith(resp) ==
    /\ run.pc = "air_quality"
    /\ LET aq == AirQualityBlock(resp)
       IN  run' = [run EXCEPT !.pc = "save",
                              !.calls = @ \o (IF resp.status = "error"
                                              THEN <<"get_air_quality">>
                                              ELSE <<"get_air_quality", "latest_aqi",
                                                     "aqi_timeseries">>),
                              !.aq_status = resp.status,
                              !.hourly = resp.hourly,
                              !.aq_failed = aq.failed,
                              !.aqi_val = aq.aqi_val,
                              !.pollutants = aq.pollutants,
                              !.aqi_df = aq.aqi_df]
    /\ UNCHANGED <<file, file_before, nq, confirmed, logvars, fnvars>>

AirQuality(responses) == \E resp \in responses : AirQualityWith(resp)

\* app.py 94-214: the record is saved, the confirmation shown, the page
\* rendered and the tips generated; the script ends.
SaveAndRenderWith(io) ==
    /\ run.pc = "save"
    /\ LET record == CurrentRecord(run)
           saved == save_record_to_excel(record, file, io)
           aqi_shown == ~IsMissing(run.aqi_val)
           daily == run.weather_data.daily
       IN  /\ file' = saved.file
           /\ run' = [run EXCEPT
                        !.pc = "idle",
                        !.outcome = "completed",
                        !.calls = @ \o <<"save_record_to_excel", "eco_tips">>,
                        !.record = record,
                        !.save_warned = saved.warned,
                        !.messages = @ \cup (IF saved.warned THEN {MsgSaveWarning} ELSE {})
                                       \cup {MsgSaved}
                                       \cup (IF aqi_shown THEN {} ELSE {MsgNoAirQuality})
                                       \cup (IF Len(daily.time) = 0 THEN {MsgNoForecast} ELSE {}),
                        !.shown_current = ShownCurrent(run.temp, run.temp_unit),
                        !.shown_aqi = AirQualitySection(run.aqi_val, run.pollutants, run.aqi_df),
                        !.shown_daily = ForecastSection(daily, run.units, run.temp_unit),
                        !.tips = ScriptTips(run)]
    /\ confirmed' = confirmed \cup {run.qid}
    /\ file_before' = file
    /\ UNCHANGED <<nq, logvars, fnvars>>

SaveAndRender == \E io \in IOOutcomes : SaveAndRenderWith(io)

Init ==
    /\ file = NoFile
    /\ file_before = NoFile
    /\ nq = 0
    /\ confirmed = {}
    /\ run = NoRun
    /\ passed = <<>>
    /\ io_clean = TRUE
    /\ fn_pc = "off"
    /\ fn_in = None
    /\ fn_out = None

Next ==
    \/ Click(MaxQueries)
    \/ Geocode
    \/ Forecast
    \/ AirQuality(CommonAirQuality)
    \/ SaveAndRender

\* Any number of queries, one after the other, against the one log file.
Spec == Init /\ [][Next]_vars

NextAirQuality ==
    \/ Click(1)
    \/ Geocode
    \/ Forecast
    \/ AirQuality(AllAirQuality)
    \/ SaveAndRender

\* One query, the air-quality provider answering with arrays of any lengths.
SpecAirQuality == Init /\ [][NextAirQuality]_vars

---------------------------------------------------------------------------
(* save_record_to_excel called on its own, call after call *)

\* The records a caller may pass as the ts-th: a place (the geocoder's name
\* and country for it), a temperature and an AQI that may each be None.
LogRecords(ts) ==
    {[c \in Columns |->
        IF c = "Date & Time" THEN Num(ts)
        ELSE IF c = "City" THEN place.name
        ELSE IF c = "Country" THEN place.country
        ELSE IF c = "Temperature (C)" THEN t
        ELSE IF c = "Wind Speed (km/h)" THEN Num(30)
        ELSE IF c = "Weather Code" THEN Num(61)
        ELSE a] :
        place \in {[name |-> Str("Delhi"), country |-> Str("India")],
                   [name |-> Str("None"), country |-> Str("Italy")]},
        t \in {None, Num(325)},
        a \in {None, Num(Fixed(40))}}

LogAppend ==
    /\ nq < MaxAppends
    /\ \E record \in LogRecords(nq + 1), io \in IOOutcomes :
          LET saved == save_record_to_excel(record, file, io)
          IN  /\ file' = saved.file
              /\ passed' = Append(passed, record)
              /\ io_clean' = (io_clean /\ ~saved.warned)
    /\ file_before' = file
    /\ nq' = nq + 1
    /\ UNCHANGED <<confirmed, run, fnvars>>

SpecLog == Init /\ [][LogAppend]_vars

---------------------------------------------------------------------------
(* The pure helpers applied to every input of a bounded range *)

AqiMargin == 20
TempMargin == 1
MaxCode == 87

AqiInputs == {None, NaN} \cup {Num(v) : v \in (0 - AqiMargin)..(Fixed(300) + AqiMargin)}

TipInputs ==
    [temp_c : {Num(Fixed(20))} \cup
              {Num(Fixed(b) + d) : b \in {15, 18, 28, 30}, d \in (0 - TempMargin)..TempMargin},
     weather_code : {Num(c) : c \in 0..MaxCode},
     aqi : {None, NaN} \cup {Num(Fixed(b) + d) : b \in {50, 150}, d \in {0, 1}}
                       \cup {Num(Fixed(40)), Num(Fixed(175))},
     wind_speed : {None, Num(Fixed(3)), Num(Fixed(6)), Num(Fixed(6) + 1)}]

InitFn(inputs) ==
    /\ file = NoFile
    /\ file_before = NoFile
    /\ nq = 0
    /\ confirmed = {}
    /\ run = NoRun
    /\ passed = <<>>
    /\ io_clean = TRUE
    /\ fn_pc = "ready"
    /\ fn_in \in inputs
    /\ fn_out = None

Classify ==
    /\ fn_pc = "ready"
    /\ fn_out' = [text |-> explain_us_aqi(fn_in), badge |-> aqi_emoji(fn_in)]
    /\ fn_pc' = "done"
    /\ UNCHANGED <<file, file_before, nq, confirmed, run, logvars, fn_in>>

SpecClassify == InitFn(AqiInputs) /\ [][Classify]_vars

GenerateTips ==
    /\ fn_pc = "ready"
    /\ fn_out' = eco_tips(fn_in.temp_c, fn_in.weather_code, fn_in.aqi, fn_in.wind_speed)
    /\ fn_pc' = "done"
    /\ UNCHANGED <<file, file_before, nq, confirmed, run, logvars, fn_in>>

SpecTips == InitFn(TipInputs) /\ [][GenerateTips]_vars

---------------------------------------------------------------------------
(* Properties *)

Range(seq) == {seq[i] : i \in DOMAIN seq}
IsPrefix(a, b) == Len(a) <= Len(b) /\ \A i \in DOMAIN a : a[i] = b[i]
Aborted == run.geo_status \in {"raised", "no_match"} \/ run.fc_status = "raised"
Unavailable == run.aqi_val = None /\ run.pollutants = EmptyDict /\ run.aqi_df = NoFrame

\* C1: when geocode raises or finds no match, or the forecast fetch raises, the
\* run ends at that step: nothing after it was called, no record was built or
\* saved, no tip generated, the log file is as it was before the query, only
\* the error is shown, and the page takes the next click.
C1_FailedLookupAbortsQuery ==
    /\ run.geo_status \in {"raised", "no_match"} =>
          /\ run.calls = <<"geocode_city">>
          /\ run.outcome = (IF run.geo_status = "raised" THEN "geocode_error" ELSE "not_found")
          /\ run.messages = {IF run.geo_status = "raised" THEN MsgGeocodeError ELSE MsgNotFound}
    /\ run.fc_status = "raised" =>
          /\ run.calls = <<"geocode_city", "get_weather_forecast">>
          /\ run.outcome = "forecast_error"
          /\ run.messages = {MsgForecastError}
    /\ Aborted =>
          /\ run.pc = "idle"
          /\ file = file_before
          /\ run.record = NoRecord
          /\ run.tips = <<>>
          /\ run.qid \notin confirmed
          /\ \A i \in DOMAIN file.rows : file.rows[i]["Date & Time"] # Num(run.qid)
          /\ nq < MaxQueries => ENABLED Click(MaxQueries)

\* A query aborted while the log already held a row.
C1_Witness == Aborted /\ run.pc = "idle" /\ Len(file.rows) >= 1

\* C2: once geocode and forecast have succeeded the run never stops early: the
\* air-quality block and the save go through whatever the provider and the file
\* system answer, the run ends completed with the save attempted and tips
\* generated, an air-quality failure leaves AQI None, pollutants {} and no
\* trend frame, and a failed append shows its warning and no error.
C2_DegradesWithoutAborting ==
    run.fc_status = "ok" =>
        /\ run.geo_status = "found"
        /\ run.pc \in {"air_quality", "save", "idle"}
        /\ run.pc = "air_quality" => \A resp \in CommonAirQuality : ENABLED AirQualityWith(resp)
        /\ run.pc = "save" => \A io \in IOOutcomes : ENABLED SaveAndRenderWith(io)
        /\ (run.aq_status = "error" \/ run.aq_failed) =>
              /\ run.aq_failed
              /\ Unavailable
              /\ run.pc = "idle" =>
                    /\ run.record["US AQI"] = None
                    /\ run.shown_aqi = NoAqiSection
                    /\ MsgNoAirQuality \in run.messages
        /\ run.pc = "idle" =>
              /\ run.outcome = "completed"
              /\ "save_record_to_excel" \in Range(run.calls)
              /\ "eco_tips" \in Range(run.calls)
              /\ run.tips # <<>>
              /\ run.messages \cap ErrorMessages = {}
              /\ run.save_warned <=> MsgSaveWarning \in run.messages

\* A run that completed although the trend frame could not be built from the
\* air-quality answer and the append failed.
C2_Witness ==
    /\ run.outcome = "completed"
    /\ run.aq_status = "ok"
    /\ run.aq_failed
    /\ run.save_warned
    /\ run.tips # <<>>


\* The table of the AQI tiers, by the bounds of each tier.
TierOf(v) ==
    IF v.k \in {"none", "nan"} THEN "Unknown"
    ELSE IF v.n <= Fixed(50) THEN "Good"
    ELSE IF Fixed(50) < v.n /\ v.n <= Fixed(100) THEN "Moderate"
    ELSE IF Fixed(100) < v.n /\ v.n <= Fixed(150) THEN "Unhealthy for Sensitive Groups"
    ELSE IF Fixed(150) < v.n /\ v.n <= Fixed(200) THEN "Unhealthy"
    ELSE IF Fixed(200) < v.n /\ v.n <= Fixed(300) THEN "Very Unhealthy"
    ELSE IF v.n > Fixed(300) THEN "Hazardous"
    ELSE "no tier"

TierText ==
    "Unknown" :> "AQI data not available."
    @@ "Good" :> "Good - Air quality is considered satisfactory."
    @@ "Moderate" :> "Moderate - Acceptable; some pollutants may affect very sensitive people."
    @@ "Unhealthy for Sensitive Groups" :> "Unhealthy for Sensitive Groups - Sensitive people should reduce outdoor exertion."
    @@ "Unhealthy" :> "Unhealthy - Everyone may begin to feel adverse health effects."
    @@ "Very Unhealthy" :> "Very Unhealthy - Health alert; serious effects for everyone."
    @@ "Hazardous" :> "Hazardous - Emergency conditions; avoid going outside."

TierBadge ==
    "Unknown" :> "white circle"
    @@ "Good" :> "green circle"
    @@ "Moderate" :> "yellow circle"
    @@ "Unhealthy for Sensitive Groups" :> "orange circle"
    @@ "Unhealthy" :> "red circle"
    @@ "Very Unhealthy" :> "purple circle"
    @@ "Hazardous" :> "black circle"

\* C3: for every AQI input (None, NaN, any number) explain_us_aqi returns the
\* text and aqi_emoji the badge of the tier the table gives for that input, so
\* both are defined everywhere and always name the same tier.
C3_ClassifiersFollowTierTable ==
    fn_pc = "done" =>
        /\ TierOf(fn_in) \in DOMAIN TierText
        /\ fn_out.text = TierText[TierOf(fn_in)]
        /\ fn_out.badge = TierBadge[TierOf(fn_in)]

\* AQI 50 exactly was classified, and came out Good.
C3_Witness == fn_pc = "done" /\ fn_in = Num(Fixed(50)) /\ fn_out.badge = "green circle"

\* The rule table of the tips, category by category.
RuleTemperature(t) ==
    CASE Fixed(18) <= t.n /\ t.n <= Fixed(28) -> <<TipComfortable>>
      [] t.n > Fixed(30) -> <<TipHot>>
      [] t.n < Fixed(15) -> <<TipCool>>
      [] OTHER -> <<>>

RuleWeatherCode(c) ==
    CASE c.n \in {0, 1} -> <<TipClearSky, TipDaylight>>
      [] c.n \in {2, 3} -> <<TipCloudy>>
      [] c.n \in (51..67) \cup (80..82) -> <<TipRain>>
      [] c.n \in (71..77) \cup (85..86) -> <<TipWintry>>
      [] OTHER -> <<>>

RuleAqi(a) ==
    CASE a.k = "num" /\ a.n > Fixed(150) -> <<TipAvoidVehicles, TipWearMask>>
      [] a.k = "num" /\ a.n <= Fixed(50) -> <<TipWalkCycle>>
      [] OTHER -> <<>>

RuleWind(w) == IF w.k = "num" /\ w.n > Fixed(6) THEN <<TipVentilation>> ELSE <<>>

RuleTips(in) ==
    RuleTemperature(in.temp_c) \o RuleWeatherCode(in.weather_code)
        \o RuleAqi(in.aqi) \o RuleWind(in.wind_speed)

\* C4: eco_tips never returns an empty sequence, and the fallback tip is in the
\* result exactly when no rule of the table fires, the result then being the
\* fallback tip alone.
C4_TipsNonEmptyFallbackIffNoRule ==
    fn_pc = "done" =>
        /\ Len(fn_out) >= 1
        /\ TipFallback \in Range(fn_out) <=> RuleTips(fn_in) = <<>>
        /\ RuleTips(fn_in) = <<>> => fn_out = <<TipFallback>>

\* No rule fired and the fallback tip was returned.
C4_Witness == fn_pc = "done" /\ RuleTips(fn_in) = <<>> /\ fn_out = <<TipFallback>>

\* C5: when a rule fires, eco_tips returns the tips of the rule table in the
\* order temperature, weather code, AQI, wind, and nothing else.
C5_TipsFollowRuleTable ==
    (fn_pc = "done" /\ RuleTips(fn_in) # <<>>) => fn_out = RuleTips(fn_in)

\* 20 degrees, code 61, AQI 40, wind 3: comfortable, rain, walk/cycle.
C5_Witness ==
    /\ fn_pc = "done"
    /\ fn_in = [temp_c |-> Num(Fixed(20)), weather_code |-> Num(61),
                aqi |-> Num(Fixed(40)), wind_speed |-> Num(Fixed(3))]
    /\ fn_out = <<TipComfortable, TipRain, TipWalkCycle>>

\* A row of the file holds a record: every field the record has is in the row
\* unchanged, every field it lacks (None, NaN) is an empty cell.
RowHoldsRecord(row, rec) ==
    \A c \in Columns : IF IsMissing(rec[c]) THEN row[c] = EmptyCell ELSE row[c] = rec[c]

\* C6: with no I/O failure, after N calls on a file that did not exist the file
\* has exactly N rows and row i holds the i-th record passed.
C6_NAppendsGiveNRowsInOrder ==
    io_clean =>
        /\ Len(file.rows) = Len(passed)
        /\ passed # <<>> => file.exists /\ ~file.corrupt
        /\ \A i \in DOMAIN passed : RowHoldsRecord(file.rows[i], passed[i])

\* C7: the rows the file held before an operation are a prefix of the rows it
\* holds after it, whatever the operation and whether or not it failed.
C7_LogIsAppendOnly == IsPrefix(file_before.rows, file.rows)

\* The entry of an hourly array at the highest time index, None when the array
\* has no such entry.
LatestEntry(hourly, key) ==
    IF Len(hourly[key]) >= Len(hourly["time"]) THEN hourly[key][Len(hourly["time"])] ELSE None

\* C8: when the air-quality fetch succeeds with a non-empty time array, the AQI
\* the run holds, logs and classifies and the five pollutant values it holds
\* are the entries at the highest time index, None exactly when the array is
\* missing or too short.
C8_ReportsLatestSample ==
    (run.outcome = "completed" /\ run.aq_status = "ok" /\ run.hourly["time"] # <<>>) =>
        /\ run.aqi_val = LatestEntry(run.hourly, "us_aqi")
        /\ run.record["US AQI"] = LatestEntry(run.hourly, "us_aqi")
        /\ LatestEntry(run.hourly, "us_aqi") # None =>
              run.shown_aqi.badge = TierBadge[TierOf(LatestEntry(run.hourly, "us_aqi"))]
        /\ \A p \in Pollutants : DictGet(run.pollutants, p) = LatestEntry(run.hourly, p)

\* The value and the label a temperature is to be shown with under a unit.
ShownAs(c, units) ==
    IF units = "Fahrenheit"
    THEN [value |-> Num((c.n * 9) \div 5 + 320), unit |-> "F"]
    ELSE [value |-> c, unit |-> "C"]

\* C9: every temperature a completed run displays (current, daily minimum,
\* daily maximum) is the value of the selected unit under that unit's label,
\* and the logged temperature is the Celsius value.
C9_TemperaturesMatchUnitLabel ==
    run.outcome = "completed" =>
        LET daily == run.weather_data.daily
        IN  /\ run.record["Temperature (C)"] = run.temp_c
            /\ run.temp_c # None => run.shown_current = ShownAs(run.temp_c, run.units)
            /\ \A i \in DOMAIN run.shown_daily :
                  /\ At(daily.temperature_2m_min, i) # None =>
                        /\ run.shown_daily[i].tmin = ShownAs(At(daily.temperature_2m_min, i), run.units).value
                        /\ run.shown_daily[i].unit = ShownAs(At(daily.temperature_2m_min, i), run.units).unit
                  /\ At(daily.temperature_2m_max, i) # None =>
                        /\ run.shown_daily[i].tmax = ShownAs(At(daily.temperature_2m_max, i), run.units).value
                        /\ run.shown_daily[i].unit = ShownAs(At(daily.temperature_2m_max, i), run.units).unit

\* C10: the queries that showed "Weather record saved" are exactly the queries
\* with a row in the log, and a run whose append failed shows the warning
\* without the confirmation.
C10_ConfirmedIffLogged ==
    /\ confirmed = {file.rows[i]["Date & Time"].n : i \in DOMAIN file.rows}
    /\ (run.outcome = "completed" /\ run.save_warned) =>
          (MsgSaveWarning \in run.messages /\ MsgSaved \notin run.messages)

====
